---- MODULE Spec2Model ----
(***************************************************************************)
(* State-machine model of src/App.js, the "megaphone + soundboard" React   *)
(* Native component: the broadcast toggle (toggleMic), the capture 'data'  *)
(* listener, and the soundboard handlers addSound / playSound /            *)
(* removeSound.  Every async handler is cut at its awaits: one action per  *)
(* synchronous segment.  React state (isMicOn, sounds, permissionResponse) *)
(* is kept apart from the values captured by the closures of the last      *)
(* render (rendered), because the handlers read the latter.                *)
(***************************************************************************)
EXTENDS Integers, Sequences, FiniteSets

\* ---- bounds of the model ----
MaxFrames == 2      \* 'data' events delivered by the capture side
MaxCalls == 3       \* invocations of the press handlers (toggle, add, play, remove)
MaxClock == 1       \* advances of the millisecond clock read by Date.now()
ClipLen == 2        \* length of a clip, in playback ticks

VARIABLES
    mounted,             \* the component is mounted (effect cleanup not yet run)
    osPerm,              \* the platform's microphone permission
    permissionResponse,  \* state of the Audio.usePermissions hook (status)
    isMicOn,             \* useState(false)
    sounds,              \* useState([])
    rendered,            \* the state values the current closures/UI were rendered with
    effectPc,            \* position of the mount effect's async body
    listening,           \* LiveAudioStream.on('data', ...) is registered
    alerts,              \* number of Alert.alert notices shown
    streamLog,           \* calls made on LiveAudioStream: "start" / "stop", in order
    captured,            \* frames delivered to the 'data' listener
    output,              \* frames handed to the output side
    now,                 \* the clock read by Date.now()
    calls,               \* the press-handler invocations, in the order of the presses:
                         \*   fn (the handler), pc (its position), and its locals file
                         \*   (addSound), obj (soundItem.soundObj / soundToFree.soundObj)
                         \*   and id (removeSound's argument)
    snd                  \* the Audio.Sound objects: status, playing, position; the
                         \*   object created by invocation k of addSound is snd[k]

micVars == <<mounted, osPerm, permissionResponse, isMicOn, effectPc, listening,
             alerts, streamLog, captured, output>>
boardVars == <<sounds, now, calls, snd>>
vars == <<micVars, boardVars, rendered>>

Calls == 1..MaxCalls
Frames == {"f0", "f1"}

\* ---- helpers ----

\* The values a render captures: the closures of toggleMic / removeSound and
\* the JSX read isMicOn, permissionResponse and sounds of that render.
Current == [isMicOn |-> isMicOn, permissionResponse |-> permissionResponse,
            sounds |-> sounds]

\* The outcomes requestPermission() can resolve with: a permission already
\* granted stays granted (the platform ends the process when it is revoked);
\* otherwise the user grants or denies.  The hook stores the response.
PermissionOutcomes(os) == IF os = "granted" THEN {"granted"} ELSE {"granted", "denied"}

\* The last call made on LiveAudioStream ("none" before any).
LastCall == IF streamLog = <<>> THEN "none" ELSE streamLog[Len(streamLog)]

\* toggleMic, line 83: the branch taken.
MicIsOn(r) == r.isMicOn

\* toggleMic, line 87: permission must be requested first.
NeedsPermission(r) == r.permissionResponse # "granted"

\* Variant of IsDenied in which the check of the response is left out.
IsDeniedSkipped(resp) == FALSE

\* toggleMic, line 89: the request was denied.
IsDenied(resp) == resp # "granted"

\* Variant of MicAfterStop in which the stop branch leaves isMicOn set.
MicAfterStopStale == TRUE

\* toggleMic, line 85: the value given to setIsMicOn after LiveAudioStream.stop().
MicAfterStop == FALSE

\* toggleMic, line 95: the value given to setIsMicOn after LiveAudioStream.start().
MicAfterStart == TRUE

\* The status text of the header, line 155.
StatusText(r) == IF r.isMicOn THEN "BROADCASTING" ELSE "READY"

\* The 'data' listener, lines 66-73: its body is empty, so the frame is
\* handed to nobody and the output side is left as it was.
OnData(out, data) == out

\* ---- soundboard helpers ----

\* Date.now().toString(), line 115: the decimal digits of the clock reading.
DigitChar(d) == <<"0", "1", "2", "3", "4", "5", "6", "7", "8", "9">>[d + 1]
RECURSIVE ToString(_)
ToString(n) == IF n < 10 THEN <<DigitChar(n)>>
               ELSE Append(ToString(n \div 10), DigitChar(n % 10))

\* The files the user can pick: one the decoder supports, one it does not.
ClipFile == [uri |-> "file:///cache/clip.mp3", name |-> "clip.mp3"]
BadFile == [uri |-> "file:///cache/notes.bin", name |-> "notes.bin"]
PickedFiles == {ClipFile, BadFile}
NoFile == [uri |-> "undefined", name |-> "undefined"]

\* What DocumentPicker.getDocumentAsync can resolve with, lines 101-104: the
\* current result shape ({canceled, assets}) and the older one ({type, uri,
\* name}), both of which line 106-107 provides for.  A JavaScript field that
\* is absent is "undefined"; a null or absent assets array is <<>>.
PickerResults ==
    {[type |-> "undefined", canceled |-> "false", assets |-> <<f>>,
      uri |-> "undefined", name |-> "undefined"] : f \in PickedFiles}
    \cup {[type |-> "undefined", canceled |-> "true", assets |-> <<>>,
           uri |-> "undefined", name |-> "undefined"]}
    \cup {[type |-> "success", canceled |-> "undefined", assets |-> <<>>,
           uri |-> f.uri, name |-> f.name] : f \in PickedFiles}
    \cup {[type |-> "cancel", canceled |-> "undefined", assets |-> <<>>,
           uri |-> "undefined", name |-> "undefined"]}

\* Line 106: result.type === 'success' || !result.canceled.
Accepted(result) == result.type = "success" \/ result.canceled \in {"false", "undefined"}

\* Line 107: result.assets ? result.assets[0] : result.
FileOf(result) == IF result.assets # <<>> THEN result.assets[1]
                  ELSE [uri |-> result.uri, name |-> result.name]

\* Audio.Sound.createAsync, lines 109-112, resolves for a file it can decode
\* and rejects otherwise (an unsupported file, or no uri at all).
Loadable(file) == file = ClipFile

\* Lines 114-119: the entry addSound stores.
NewSound(k) == [id |-> ToString(now), name |-> calls[k].file.name,
                uri |-> calls[k].file.uri, soundObj |-> k]

\* A handler invocation not yet made, one in progress, and one that returned
\* (its locals are gone).
IdleCall == [fn |-> "none", pc |-> "idle", file |-> NoFile, obj |-> 0, id |-> <<>>]
Returned(fn, how) == [fn |-> fn, pc |-> how, file |-> NoFile, obj |-> 0, id |-> <<>>]
NextCall(k) == calls[k].pc = "idle" /\ (IF k = 1 THEN TRUE ELSE calls[k - 1].pc # "idle")
At(k, fn, pc) == calls[k].fn = fn /\ calls[k].pc = pc

\* A sound object not yet created, and a freshly loaded one ({shouldPlay: false}).
NoSound == [status |-> "none", playing |-> FALSE, pos |-> 0]
LoadedSound == [status |-> "loaded", playing |-> FALSE, pos |-> 0]

\* A state update is dropped once the component is unmounted.
SetState(new, old) == IF mounted THEN new ELSE old

\* The Audio.Sound operations on one sound object.  stopAsync pauses and
\* rewinds; playAsync plays from the current position, and does nothing at
\* the end of the clip; unloadAsync releases the clip's audio data.
StopAsync(s) == [s EXCEPT !.playing = FALSE, !.pos = 0]
SetPositionAsync(s, at) == [s EXCEPT !.pos = at]
PlayAsync(s) == [s EXCEPT !.playing = (s.pos < ClipLen)]
UnloadAsync(s) == [status |-> "unloaded", playing |-> FALSE, pos |-> 0]
IsLoaded(s) == s.status = "loaded"

\* sounds.find(s => s.id === id), line 139: the index of the first match, 0 if none.
Find(list, id) ==
    IF \E j \in DOMAIN list : list[j].id = id
    THEN CHOOSE j \in DOMAIN list :
            /\ list[j].id = id
            /\ \A h \in 1..(j - 1) : list[h].id # id
    ELSE 0

\* prev.filter(s => s.id !== id), line 143.
RECURSIVE Filter(_, _)
Filter(list, id) ==
    IF list = <<>> THEN <<>>
    ELSE IF Head(list).id # id THEN <<Head(list)>> \o Filter(Tail(list), id)
    ELSE Filter(Tail(list), id)

\* ---- initial state: first render done, mount effect started ----
Init ==
    /\ mounted = TRUE
    /\ osPerm \in {"undetermined", "granted", "denied"}
    /\ permissionResponse = "null"
    /\ isMicOn = FALSE
    /\ sounds = <<>>
    /\ rendered = [isMicOn |-> FALSE, permissionResponse |-> "null", sounds |-> <<>>]
    /\ effectPc = "requesting"
    /\ listening = FALSE
    /\ alerts = 0
    /\ streamLog = <<>>
    /\ captured = <<>>
    /\ output = <<>>
    /\ now = 0
    /\ calls = [k \in Calls |-> IdleCall]
    /\ snd = [k \in Calls |-> NoSound]

\* ---- rendering ----

\* React re-renders after a state update made outside an event handler (after
\* an await); until then the closures keep the values of the previous render.
Render ==
    /\ mounted
    /\ rendered # Current
    /\ rendered' = Current
    /\ UNCHANGED <<micVars, boardVars>>

\* ---- mount effect, lines 28-80 ----

\* Lines 30-32: permissionResponse is null on the first render, so the effect
\* awaits requestPermission(); the hook stores the response.
EffectPermissionResolved ==
    /\ effectPc = "requesting"
    /\ \E resp \in PermissionOutcomes(osPerm) :
        /\ osPerm' = resp
        /\ permissionResponse' = IF mounted THEN resp ELSE permissionResponse
    /\ effectPc' = "configuring"
    /\ UNCHANGED <<mounted, isMicOn, listening, alerts, streamLog,
                   captured, output, boardVars, rendered>>

\* Lines 35-73: setAudioModeAsync resolved; LiveAudioStream.init and on('data').
EffectConfigured ==
    /\ effectPc = "configuring"
    /\ effectPc' = "ready"
    /\ listening' = TRUE
    /\ UNCHANGED <<mounted, osPerm, permissionResponse, isMicOn, alerts,
                   streamLog, captured, output, boardVars, rendered>>

\* Lines 77-79: the effect's cleanup on unmount.
Unmount ==
    /\ mounted
    /\ mounted' = FALSE
    /\ streamLog' = Append(streamLog, "stop")
    /\ UNCHANGED <<osPerm, permissionResponse, isMicOn, effectPc, listening,
                   alerts, captured, output, boardVars, rendered>>

\* ---- toggleMic, lines 82-97 ----

\* The press of the mic button: the synchronous part of toggleMic, run with the
\* isMicOn and permissionResponse of the current render.  A state update made
\* inside the press handler is rendered before the next event.
ToggleTap(k) ==
    /\ mounted
    /\ NextCall(k)
    /\ IF MicIsOn(rendered)
       THEN /\ streamLog' = Append(streamLog, "stop")
            /\ isMicOn' = MicAfterStop
            /\ calls' = [calls EXCEPT ![k] = Returned("toggleMic", "stopped")]
            /\ rendered' = [Current EXCEPT !.isMicOn = isMicOn']
       ELSE IF NeedsPermission(rendered)
       THEN /\ calls' = [calls EXCEPT ![k] = [@ EXCEPT !.fn = "toggleMic",
                                                       !.pc = "requesting"]]
            /\ UNCHANGED <<streamLog, isMicOn, rendered>>
       ELSE /\ streamLog' = Append(streamLog, "start")
            /\ isMicOn' = MicAfterStart
            /\ calls' = [calls EXCEPT ![k] = Returned("toggleMic", "started")]
            /\ rendered' = [Current EXCEPT !.isMicOn = isMicOn']
    /\ UNCHANGED <<mounted, osPerm, permissionResponse, effectPc, listening, alerts,
                   captured, output, sounds, now, snd>>

\* Lines 88-95: requestPermission() resolved and toggleMic resumes.
TogglePermissionResolved(k) ==
    /\ At(k, "toggleMic", "requesting")
    /\ \E resp \in PermissionOutcomes(osPerm) :
        /\ osPerm' = resp
        /\ permissionResponse' = IF mounted THEN resp ELSE permissionResponse
        /\ IF IsDenied(resp)
           THEN /\ alerts' = alerts + 1
                /\ calls' = [calls EXCEPT ![k] = Returned("toggleMic", "denied")]
                /\ UNCHANGED <<streamLog, isMicOn>>
           ELSE /\ streamLog' = Append(streamLog, "start")
                /\ isMicOn' = IF mounted THEN MicAfterStart ELSE isMicOn
                /\ calls' = [calls EXCEPT ![k] = Returned("toggleMic", "started")]
                /\ UNCHANGED alerts
    /\ UNCHANGED <<mounted, effectPc, listening, captured, output, sounds, now, snd,
                   rendered>>

\* ---- capture, lines 66-73 ----

\* A 'data' event: the native recorder emits while it records (the last call
\* was start()) and the listener is registered.
DataEvent(f) ==
    /\ listening
    /\ LastCall = "start"
    /\ Len(captured) < MaxFrames
    /\ captured' = Append(captured, f)
    /\ output' = OnData(output, f)
    /\ UNCHANGED <<mounted, osPerm, permissionResponse, isMicOn, effectPc, listening,
                   alerts, streamLog, boardVars, rendered>>

\* ---- the clock ----

\* A millisecond passes.
Tick ==
    /\ now < MaxClock
    /\ now' = now + 1
    /\ UNCHANGED <<micVars, rendered, sounds, calls, snd>>

\* ---- addSound, lines 99-126 ----

\* The press of ADD SOUND: getDocumentAsync is called and awaited.
AddTap(k) ==
    /\ mounted
    /\ NextCall(k)
    /\ calls' = [calls EXCEPT ![k] = [@ EXCEPT !.fn = "addSound", !.pc = "picking"]]
    /\ UNCHANGED <<micVars, rendered, sounds, now, snd>>

\* Lines 106-112: the picker resolved; an accepted result goes on to
\* createAsync, a cancelled one ends the call.
AddPickerResolved(k) ==
    /\ At(k, "addSound", "picking")
    /\ \E result \in PickerResults :
        calls' = [calls EXCEPT ![k] =
                    IF Accepted(result)
                    THEN [@ EXCEPT !.pc = "creating", !.file = FileOf(result)]
                    ELSE Returned("addSound", "skipped")]
    /\ UNCHANGED <<micVars, rendered, sounds, now, snd>>

\* Lines 123-125: the picker threw; the catch logs and nothing else happens.
AddPickerThrows(k) ==
    /\ At(k, "addSound", "picking")
    /\ calls' = [calls EXCEPT ![k] = Returned("addSound", "failed")]
    /\ UNCHANGED <<micVars, rendered, sounds, now, snd>>

\* Lines 109-121: createAsync resolved with a loaded sound; the entry is
\* appended to whatever the list is now.
AddCreateResolved(k) ==
    /\ At(k, "addSound", "creating")
    /\ Loadable(calls[k].file)
    /\ snd' = [snd EXCEPT ![k] = LoadedSound]
    /\ sounds' = SetState(Append(sounds, NewSound(k)), sounds)
    /\ calls' = [calls EXCEPT ![k] = Returned("addSound", "added")]
    /\ UNCHANGED <<micVars, rendered, now>>

\* Variant of AddCreateRejected in which the entry is stored although
\* createAsync rejected.
AddCreateRejectedAppends(k) ==
    /\ At(k, "addSound", "creating")
    /\ ~Loadable(calls[k].file)
    /\ sounds' = SetState(Append(sounds, NewSound(k)), sounds)
    /\ calls' = [calls EXCEPT ![k] = Returned("addSound", "failed")]
    /\ UNCHANGED <<micVars, rendered, now, snd>>

\* Lines 109-112 and 123-125: createAsync rejected; the catch logs the error.
AddCreateRejected(k) ==
    /\ At(k, "addSound", "creating")
    /\ ~Loadable(calls[k].file)
    /\ calls' = [calls EXCEPT ![k] = Returned("addSound", "failed")]
    /\ UNCHANGED <<micVars, rendered, sounds, now, snd>>

\* ---- playSound, lines 128-136 ----

\* The press of card i of the rendered list: stopAsync is called and awaited.
PlayTap(k, i) ==
    /\ mounted
    /\ NextCall(k)
    /\ i \in DOMAIN rendered.sounds
    /\ calls' = [calls EXCEPT ![k] = [@ EXCEPT !.fn = "playSound", !.pc = "stopping",
                                               !.obj = rendered.sounds[i].soundObj]]
    /\ UNCHANGED <<micVars, rendered, sounds, now, snd>>

\* One awaited step of playSound: the operation takes effect and the call
\* moves on, or it throws because the sound is not loaded and the catch of
\* lines 133-135 ends the call.
PlayStep(k, from, to, after) ==
    /\ At(k, "playSound", from)
    /\ IF IsLoaded(snd[calls[k].obj])
       THEN /\ snd' = [snd EXCEPT ![calls[k].obj] = after]
            /\ calls' = [calls EXCEPT ![k] =
                            IF to = "done" THEN Returned("playSound", "done")
                            ELSE [@ EXCEPT !.pc = to]]
       ELSE /\ calls' = [calls EXCEPT ![k] = Returned("playSound", "failed")]
            /\ UNCHANGED snd
    /\ UNCHANGED <<micVars, rendered, sounds, now>>

\* Line 130: stopAsync.
PlayStopDone(k) == PlayStep(k, "stopping", "seeking", StopAsync(snd[calls[k].obj]))

\* Line 131: setPositionAsync(0).
PlaySeekDone(k) == PlayStep(k, "seeking", "starting", SetPositionAsync(snd[calls[k].obj], 0))

\* Line 132: playAsync.
PlayStartDone(k) == PlayStep(k, "starting", "done", PlayAsync(snd[calls[k].obj]))

\* The player advances a playing clip by one tick and stops at its end.
PlaybackTick(o) ==
    /\ snd[o].playing
    /\ snd' = [snd EXCEPT ![o] = [@ EXCEPT !.pos = @ + 1,
                                           !.playing = (snd[o].pos + 1 < ClipLen)]]
    /\ UNCHANGED <<micVars, rendered, sounds, now, calls>>

\* ---- removeSound, lines 138-144 ----

\* The press of the delete button of card i: find in the sounds of the current
\* render, then unloadAsync is called and awaited (lines 139-141).  With no
\* match the filter of line 143 runs at once, inside the press handler.
RemoveTap(k, i) ==
    /\ mounted
    /\ NextCall(k)
    /\ i \in DOMAIN rendered.sounds
    /\ LET id == rendered.sounds[i].id
           found == Find(rendered.sounds, id)
       IN  IF found # 0
           THEN /\ calls' = [calls EXCEPT ![k] =
                                [@ EXCEPT !.fn = "removeSound", !.pc = "unloading", !.id = id,
                                          !.obj = rendered.sounds[found].soundObj]]
                /\ UNCHANGED <<sounds, rendered>>
           ELSE /\ sounds' = Filter(sounds, id)
                /\ rendered' = [Current EXCEPT !.sounds = sounds']
                /\ calls' = [calls EXCEPT ![k] = Returned("removeSound", "done")]
    /\ UNCHANGED <<micVars, now, snd>>

\* Line 141: the native player released the clip; the promise is not yet
\* delivered to the suspended removeSound.
UnloadNative(k) ==
    /\ At(k, "removeSound", "unloading")
    /\ snd' = [snd EXCEPT ![calls[k].obj] = UnloadAsync(@)]
    /\ calls' = [calls EXCEPT ![k] = [@ EXCEPT !.pc = "unloaded"]]
    /\ UNCHANGED <<micVars, rendered, sounds, now>>

\* Line 143: removeSound resumes and filters the id out of the current list.
RemoveResume(k) ==
    /\ At(k, "removeSound", "unloaded")
    /\ sounds' = SetState(Filter(sounds, calls[k].id), sounds)
    /\ calls' = [calls EXCEPT ![k] = Returned("removeSound", "done")]
    /\ UNCHANGED <<micVars, rendered, now, snd>>

\* ---- the whole component ----

Next ==
    \/ Render
    \/ EffectPermissionResolved
    \/ EffectConfigured
    \/ Unmount
    \/ \E f \in Frames : DataEvent(f)
    \/ Tick
    \/ \E k \in Calls : ToggleTap(k)
    \/ \E k \in Calls : TogglePermissionResolved(k)
    \/ \E k \in Calls : AddTap(k)
    \/ \E k \in Calls : AddPickerResolved(k)
    \/ \E k \in Calls : AddPickerThrows(k)
    \/ \E k \in Calls : AddCreateResolved(k)
    \/ \E k \in Calls : AddCreateRejected(k)
    \/ \E k \in Calls, i \in Calls : PlayTap(k, i)
    \/ \E k \in Calls : PlayStopDone(k)
    \/ \E k \in Calls : PlaySeekDone(k)
    \/ \E k \in Calls : PlayStartDone(k)
    \/ \E o \in Calls : PlaybackTick(o)
    \/ \E k \in Calls, i \in Calls : RemoveTap(k, i)
    \/ \E k \in Calls : UnloadNative(k)
    \/ \E k \in Calls : RemoveResume(k)

Spec == Init /\ [][Next]_vars

\* ======================= properties of the broadcast toggle ==============

\* C1: while the broadcast is started and no clip is triggered, every frame
\* delivered by a 'data' event is handed to the output side unchanged and in
\* capture order: the output stream equals the capture stream.
CE_C1_OutputEqualsCapture == output = captured

\* C2: a toggleMic invocation that has to request the permission makes no
\* call on LiveAudioStream before the request resolves, and when the request
\* is denied the session stays idle (isMicOn is false before and after), one
\* permission-denied notice is shown, and the invocation ends there, again
\* with no call on LiveAudioStream.
TH_C2_DenialKeepsIdle ==
    [][\A i \in Calls :
          /\ (calls[i].pc = "idle" /\ At(i, "toggleMic", "requesting")')
             => (streamLog' = streamLog /\ isMicOn' = isMicOn)
          /\ (At(i, "toggleMic", "requesting") /\ calls'[i].pc # "requesting"
                /\ osPerm' = "denied")
             => /\ At(i, "toggleMic", "denied")'
                /\ ~isMicOn /\ ~isMicOn'
                /\ alerts' = alerts + 1
                /\ streamLog' = streamLog]_vars

\* C2 witness: an invocation ended at a denied request, the notice was shown
\* and the session is idle with no call made on the stream by a start.
W_C2_Denied ==
    \E i \in Calls : At(i, "toggleMic", "denied") /\ alerts > 0 /\ ~isMicOn
                       /\ \A n \in DOMAIN streamLog : streamLog[n] # "start"

\* C3: LiveAudioStream.start() is never called a second time without a
\* LiveAudioStream.stop() between the two calls.
CE_C3_NoDoubleStart ==
    \A n \in 1..(Len(streamLog) - 1) :
        ~(streamLog[n] = "start" /\ streamLog[n + 1] = "start")

\* C9: once no toggleMic invocation is mid-execution (and the component is
\* mounted), isMicOn is true exactly when the last call made on
\* LiveAudioStream was start(), and the rendered status says BROADCASTING
\* exactly then once the render has caught up.
NoToggleSuspended == \A i \in Calls : ~At(i, "toggleMic", "requesting")
TH_C9_StatusMatchesStream ==
    (mounted /\ NoToggleSuspended)
    => /\ isMicOn <=> (LastCall = "start")
       /\ (rendered = Current)
          => ((StatusText(rendered) = "BROADCASTING") <=> (LastCall = "start"))

\* C9 witness: two presses suspended at the permission await; the first
\* resumed and started, a third press stopped, the second then resumed and
\* started again; nothing is suspended and the status shows the broadcast.
W_C9_OnAfterInterleaving ==
    /\ mounted /\ NoToggleSuspended /\ rendered = Current
    /\ streamLog = <<"start", "stop", "start">>
    /\ StatusText(rendered) = "BROADCASTING"
    /\ At(1, "toggleMic", "started") /\ At(2, "toggleMic", "started")
    /\ At(3, "toggleMic", "stopped")

\* ======================= properties of the soundboard ====================

\* C4: playSound on a clip that is already playing starts a second playback
\* and leaves the first alone: the playback in progress keeps playing and
\* keeps its position when the invocation's stopAsync step runs.
CE_C4_FirstPlaybackUntouched ==
    [][\A k \in Calls :
          (At(k, "playSound", "stopping") /\ calls'[k].pc # "stopping"
             /\ snd[calls[k].obj].playing)
          => /\ snd'[calls[k].obj].playing
             /\ snd'[calls[k].obj].pos = snd[calls[k].obj].pos]_vars

\* C5: removal is deferred: a clip that is playing is not released by the
\* next step, whatever it is; its playback is never cut off by a removal.
CE_C5_RemovalDeferred ==
    [][\A o \in Calls : snd[o].playing => snd'[o].status = "loaded"]_vars

\* C6: no two entries of the sounds list have the same id.
CE_C6_FreshIds ==
    \A i, j \in DOMAIN sounds : i # j => sounds[i].id # sounds[j].id

\* C7: the sounds list is in the user's add order: a clip whose addSound was
\* pressed earlier (a lower invocation, hence a lower sound object) is listed
\* before one pressed later.
CE_C7_AddOrder ==
    \A i, j \in DOMAIN sounds : i < j => sounds[i].soundObj < sounds[j].soundObj

\* C8: an addSound that fails (the picker throws or createAsync rejects)
\* leaves the sounds list, isMicOn, the rendered values and every sound
\* object exactly as they were.
TH_C8_FailedAddChangesNothing ==
    [][\A k \in Calls :
          (calls[k].fn = "addSound" /\ calls[k].pc \in {"picking", "creating"}
             /\ calls'[k].pc = "failed")
          => /\ sounds' = sounds
             /\ isMicOn' = isMicOn
             /\ rendered' = rendered
             /\ snd' = snd]_vars

\* C8 witness: an addSound failed while a clip added before is listed and
\* playing.
W_C8_FailedAddBesidePlayingClip ==
    \E k \in Calls : /\ calls[k] = Returned("addSound", "failed")
                     /\ \E i \in DOMAIN sounds : snd[sounds[i].soundObj].playing

\* C10: every entry of the sounds list refers to a loaded sound object.
CE_C10_ListedClipsLoaded ==
    \A i \in DOMAIN sounds : IsLoaded(snd[sounds[i].soundObj])

====
